---- MODULE Spec2Model ----
(***************************************************************************)
(* DETR.get_loss of src/modules/model.py: the set-prediction loss of one   *)
(* batch.  For every image of the batch the method builds the N x M        *)
(* matching-cost matrix, hands it to scipy.optimize.linear_sum_assignment, *)
(* and accumulates the weighted loss of the matched pairs; the accumulated *)
(* sum is divided once after the loop.                                     *)
(*                                                                         *)
(* Units.  A class probability is an integer number of halves (0, 1, 2     *)
(* stand for 0, 1/2, 1).  Box coordinates are (cx, cy, w, h) in quarters   *)
(* of the image side.  A GIoU loss and a matching cost are in eighths.     *)
(* The three weights are in tenths (no_obj_weight = 0.1 is 1).  A loss is  *)
(* an extended rational [kind, num, den] in units of 1/10000: kind is      *)
(* "fin", "inf" or "nan", as a float32 is finite, infinite or not a        *)
(* number.  Indices are 1-based here and 0-based in the code; class labels *)
(* keep the code's 0-based values.                                         *)
(***************************************************************************)
EXTENDS Integers, Sequences, FiniteSets, TLC

\* Bounds of the model (the code's defaults are 100 slots and 80 classes).
NumQuerySlots == 2
NumClasses == 2
MaxBatch == 2

VARIABLES
    batched_pred_bbox,  \* self(image)[0]: one sequence of N boxes per image
    batched_pred_prob,  \* self(image)[1]: one sequence of N probability rows per image
    labels,             \* argument labels: one sequence of class labels per entry
    gt_bboxes,          \* argument gt_bboxes: one sequence of boxes per entry
    no_obj_weight,      \* argument, in tenths
    l1_weight,          \* argument, in tenths
    giou_weight,        \* argument, in tenths
    tie,                \* which of several optimal assignments the solver returns
    pc,                 \* "call", "loop" or "done"
    it,                 \* iterations of the zip loop completed
    giou,               \* loop local: N x M GIoU loss matrix
    label_prob,         \* loop local: N x M matrix pred_prob[:, label]
    match_loss,         \* loop local: N x M cost matrix handed to the solver
    pred_indices,       \* loop local: slot index of every returned pair
    gt_indices,         \* loop local: object index of every returned pair
    loss,               \* loop local: the image's loss
    sum_losses          \* accumulator, and after the division the returned value

vars == <<batched_pred_bbox, batched_pred_prob, labels, gt_bboxes, no_obj_weight,
          l1_weight, giou_weight, tie, pc, it, giou, label_prob, match_loss,
          pred_indices, gt_indices, loss, sum_losses>>

inputs == <<batched_pred_bbox, batched_pred_prob, labels, gt_bboxes, no_obj_weight,
            l1_weight, giou_weight, tie>>

----------------------------------------------------------------------------
\* Extended rationals: float32 values with their infinities and NaN.

Fin(n) == [kind |-> "fin", num |-> n, den |-> 1]
Inf == [kind |-> "inf", num |-> 0, den |-> 1]
NaN == [kind |-> "nan", num |-> 0, den |-> 1]

FAdd(a, b) ==
    IF a.kind = "nan" \/ b.kind = "nan" THEN NaN
    ELSE IF a.kind = "inf" \/ b.kind = "inf" THEN Inf
    ELSE [kind |-> "fin", num |-> a.num * b.den + b.num * a.den, den |-> a.den * b.den]

\* w * a for a weight w >= 0: 0 * inf is NaN.
FScale(w, a) ==
    IF a.kind = "nan" THEN NaN
    ELSE IF a.kind = "inf" THEN (IF w = 0 THEN NaN ELSE Inf)
    ELSE [kind |-> "fin", num |-> w * a.num, den |-> a.den]

\* a / d for an integer d > 0.
FDiv(a, d) ==
    IF a.kind = "fin" THEN [kind |-> "fin", num |-> a.num, den |-> a.den * d] ELSE a

FEq(a, b) ==
    /\ a.kind = b.kind
    /\ a.kind = "fin" => a.num * b.den = b.num * a.den

FLess(a, b) ==
    \/ a.kind = "fin" /\ b.kind = "fin" /\ a.num * b.den < b.num * a.den
    \/ a.kind = "fin" /\ b.kind = "inf"

\* A plausible slip: a reduction that, like torch.mean, is NaN on an empty tensor.
RECURSIVE TorchSumNaNOnEmpty(_)
TorchSumNaNOnEmpty(s) ==
    IF s = <<>> THEN NaN
    ELSE FAdd(s[1], IF Len(s) = 1 THEN Fin(0) ELSE TorchSumNaNOnEmpty(Tail(s)))

\* torch.sum over a sequence of values; the sum of an empty tensor is 0.

RECURSIVE TorchSum(_)
TorchSum(s) == IF s = <<>> THEN Fin(0) ELSE FAdd(s[1], TorchSum(Tail(s)))

\* -torch.log(p) in thousandths, p in halves: -log(1) = 0, -log(1/2) = 0.693,
\* -log(0) = inf.
NegLog(p) == IF p = 0 THEN Inf ELSE IF p = 1 THEN Fin(693) ELSE Fin(0)

Abs(x) == IF x < 0 THEN -x ELSE x
Min2(a, b) == IF a < b THEN a ELSE b
Max2(a, b) == IF a < b THEN b ELSE a

----------------------------------------------------------------------------
\* Box geometry of the GIoU loss (iou.GIoULoss).  Corners are doubled so that
\* cx - w/2 stays an integer; all areas are then scaled by 4 and their ratios
\* are unchanged.

to_corners(b) ==
    [x_min |-> 2 * b[1] - b[3], y_min |-> 2 * b[2] - b[4],
     x_max |-> 2 * b[1] + b[3], y_max |-> 2 * b[2] + b[4]]

area(c) == (c.x_max - c.x_min) * (c.y_max - c.y_min)

intersection_area(a, b) ==
    Max2(0, Min2(a.x_max, b.x_max) - Max2(a.x_min, b.x_min))
        * Max2(0, Min2(a.y_max, b.y_max) - Max2(a.y_min, b.y_min))

union_area(a, b) == area(a) + area(b) - intersection_area(a, b)

enclosing_box(a, b) ==
    [x_min |-> Min2(a.x_min, b.x_min), y_min |-> Min2(a.y_min, b.y_min),
     x_max |-> Max2(a.x_max, b.x_max), y_max |-> Max2(a.y_max, b.y_max)]

\* 1 - giou(a, b) = 1 - I/U + (C - U)/C, in eighths.
GIoULoss(pb, gb) ==
    LET a == to_corners(pb)
        b == to_corners(gb)
        I == intersection_area(a, b)
        U == union_area(a, b)
        C == area(enclosing_box(a, b))
    IN  (8 * (U * C - I * C + (C - U) * U)) \div (U * C)

\* self.giou_loss(pred_bbox, gt_bbox): the loss of every slot-object pair.
GIoULossMatrix(pred_bbox, gt_bbox) ==
    [i \in 1..Len(pred_bbox) |-> [j \in 1..Len(gt_bbox) |-> GIoULoss(pred_bbox[i], gt_bbox[j])]]

----------------------------------------------------------------------------
\* The loop body of get_loss.

\* pred_prob[:, label]
LabelProb(pred_prob, label) ==
    [i \in 1..Len(pred_prob) |-> [j \in 1..Len(label) |-> pred_prob[i][label[j] + 1]]]

\* A plausible slip: the log-likelihood of the final loss used as matching cost.
MatchLossLog(lp, g) ==
    [i \in 1..Len(lp) |-> [j \in 1..Len(lp[i]) |->
        (IF lp[i][j] = 2 THEN 0 ELSE IF lp[i][j] = 1 THEN 6 ELSE 80) + g[i][j]]]

\* match_loss = -label_prob + giou, in eighths (a half is four eighths).
MatchLoss(lp, g) ==
    [i \in 1..Len(lp) |-> [j \in 1..Len(lp[i]) |-> -(4 * lp[i][j]) + g[i][j]]]

RECURSIVE SumInts(_)
SumInts(s) == IF s = <<>> THEN 0 ELSE s[1] + SumInts(Tail(s))

Injective(f) == \A x, y \in DOMAIN f : f[x] = f[y] => x = y

\* The pairs <<slot, object>> of a matching, sorted by slot.
RECURSIVE SortedPairs(_)
SortedPairs(ps) ==
    IF ps = {} THEN <<>>
    ELSE LET p == CHOOSE q \in ps : \A r \in ps : q[1] <= r[1]
         IN  <<p>> \o SortedPairs(ps \ {p})

\* Every complete matching of an n x m matrix: min(n, m) pairs, no slot and
\* no object used twice.
Matchings(n, m) ==
    IF n >= m
    THEN {SortedPairs({<<f[j], j>> : j \in 1..m}) : f \in {h \in [1..m -> 1..n] : Injective(h)}}
    ELSE {SortedPairs({<<i, f[i]>> : i \in 1..n}) : f \in {h \in [1..n -> 1..m] : Injective(h)}}

PairsCost(cost, ps) == SumInts([k \in 1..Len(ps) |-> cost[ps[k][1]][ps[k][2]]])

\* The order in which ties are broken: the pairs read as digits.
RECURSIVE PairsRank(_, _)
PairsRank(ps, base) ==
    IF ps = <<>> THEN 0
    ELSE (ps[Len(ps)][1] * base + ps[Len(ps)][2])
            + base * base * PairsRank(SubSeq(ps, 1, Len(ps) - 1), base)

\* A greedy matcher: every slot in turn takes the cheapest object still free
\* (every object the cheapest free slot when there are more slots than objects).
RECURSIVE GreedyRows(_, _, _, _)
GreedyRows(cost, i, free, transposed) ==
    IF free = {} \/ i > (IF transposed THEN Len(cost[1]) ELSE Len(cost)) THEN {}
    ELSE LET c(j) == IF transposed THEN cost[j][i] ELSE cost[i][j]
             j == CHOOSE x \in free : \A y \in free : c(x) < c(y) \/ (c(x) = c(y) /\ x <= y)
         IN  {IF transposed THEN <<j, i>> ELSE <<i, j>>}
                \cup GreedyRows(cost, i + 1, free \ {j}, transposed)

GreedyAssignment(cost, t) ==
    LET n == Len(cost)
        m == Len(cost[1])
    IN  IF n >= m THEN SortedPairs(GreedyRows(cost, 1, 1..n, TRUE))
        ELSE SortedPairs(GreedyRows(cost, 1, 1..m, FALSE))

\* scipy.optimize.linear_sum_assignment(cost): a complete matching of minimum
\* total cost, rows ascending; which one of several minima is returned is fixed
\* by the library and stands here as the parameter t.
LinearSumAssignment(cost, t) ==
    LET n == Len(cost)
        m == Len(cost[1])
        all == Matchings(n, m)
        costs == {PairsCost(cost, a) : a \in all}
        least == CHOOSE c \in costs : \A d \in costs : c <= d
        best == {a \in all : PairsCost(cost, a) = least}
        base == n + m + 1
        ranks == {PairsRank(a, base) : a \in best}
        rank == IF t = "first" THEN CHOOSE x \in ranks : \A y \in ranks : x <= y
                ELSE CHOOSE x \in ranks : \A y \in ranks : x >= y
    IN  CHOOSE a \in best : PairsRank(a, base) = rank

PredIndices(ps) == [k \in 1..Len(ps) |-> ps[k][1]]
GtIndices(ps) == [k \in 1..Len(ps) |-> ps[k][2]]

\* torch.sum(-torch.log(label_prob[pred_indices, gt_indices])), in thousandths
ClsTerm(lp, pi, gi) == TorchSum([k \in 1..Len(pi) |-> NegLog(lp[pi[k]][gi[k]])])

\* torch.sum(giou[pred_indices, gt_indices]), in thousandths
GiouTerm(g, pi, gi) == TorchSum([k \in 1..Len(pi) |-> Fin(125 * g[pi[k]][gi[k]])])

\* torch.sum(torch.abs(pred_bbox[pred_indices] - gt_bbox[gt_indices])), in thousandths
L1Term(pred_bbox, gt_bbox, pi, gi) ==
    TorchSum([k \in 1..Len(pi) |->
        Fin(250 * SumInts([c \in 1..4 |-> Abs(pred_bbox[pi[k]][c] - gt_bbox[gi[k]][c])]))])

\* The loss of one image for given weights.
WeightedLoss(now, l1w, gw, lp, g, pred_bbox, gt_bbox, pi, gi) ==
    FAdd(FAdd(FScale(now, ClsTerm(lp, pi, gi)), FScale(gw, GiouTerm(g, pi, gi))),
         FScale(l1w, L1Term(pred_bbox, gt_bbox, pi, gi)))

\* A plausible slip: the accumulator overwritten instead of added to.
AccumulateOverwrite(s, l) == l

\* sum_losses += loss
Accumulate(s, l) == FAdd(s, l)

\* A plausible slip: the documented per-object normalisation.
NormalizeByObjects(s, b, n, objs) == FDiv(s, Max2(1, objs))

\* sum_losses /= (image.size(0) * self.num_query_slots)
Normalize(s, b, n, objs) == FDiv(s, b * n)

\* zip stops at the shortest of its four arguments.
ZipLen(pb, pp, lb, gb) == Min2(Min2(Len(pb), Len(pp)), Min2(Len(lb), Len(gb)))

\* One call of get_loss: the predictions of the forward pass and the arguments.
CurrentCall ==
    [bbox |-> batched_pred_bbox, prob |-> batched_pred_prob, labels |-> labels,
     gt |-> gt_bboxes, now |-> no_obj_weight, l1w |-> l1_weight, gw |-> giou_weight,
     tie |-> tie]

CallZipLen(c) == ZipLen(c.bbox, c.prob, c.labels, c.gt)

\* Lines 149-151 for the k-th image of call c.
ImageGiou(c, k) == GIoULossMatrix(c.bbox[k], c.gt[k])
ImageLabelProb(c, k) == LabelProb(c.prob[k], c.labels[k])
ImageMatchLoss(c, k) == MatchLoss(ImageLabelProb(c, k), ImageGiou(c, k))

\* Lines 152-154 for the k-th image of call c.
ImageAssignment(c, k) == LinearSumAssignment(ImageMatchLoss(c, k), c.tie)

\* Lines 156-162 for the k-th image of call c.
ImageLoss(c, k) ==
    LET ps == ImageAssignment(c, k)
    IN  WeightedLoss(c.now, c.l1w, c.gw, ImageLabelProb(c, k), ImageGiou(c, k),
                     c.bbox[k], c.gt[k], PredIndices(ps), GtIndices(ps))

\* sum_losses after the first k iterations of the loop.
RECURSIVE LoopSum(_, _)
LoopSum(c, k) ==
    IF k = 0 THEN Fin(0) ELSE Accumulate(LoopSum(c, k - 1), ImageLoss(c, k))

\* Ground-truth objects of the first k images.
ObjectCount(c, k) == SumInts([i \in 1..k |-> Len(c.labels[i])])

\* The value get_loss returns for call c.
GetLoss(c) ==
    Normalize(LoopSum(c, CallZipLen(c)), Len(c.bbox), NumQuerySlots,
              ObjectCount(c, CallZipLen(c)))

----------------------------------------------------------------------------
\* Inputs.

BoxA == <<1, 1, 2, 2>>
BoxD == <<3, 3, 2, 2>>
BoxW == <<2, 1, 4, 2>>

OneHot(c) == [k \in 1..NumClasses |-> IF k = c + 1 THEN 2 ELSE 0]
Half(c, d) == [k \in 1..NumClasses |-> IF k = c + 1 \/ k = d + 1 THEN 1 ELSE 0]

\* What one slot may predict: a box and a softmax row over the classes.
SlotChoices ==
    {[bbox |-> BoxA, prob |-> OneHot(0)],
     [bbox |-> BoxW, prob |-> Half(0, NumClasses - 1)],
     [bbox |-> BoxD, prob |-> OneHot(0)]}

\* Ground-truth objects.
ObjA == [bbox |-> BoxA, label |-> 0]
ObjW == [bbox |-> BoxW, label |-> NumClasses - 1]

\* Ground truth of one image: k objects ObjA followed by m - k objects ObjW,
\* from no object to one more object than there are slots.
GtLists ==
    {[j \in 1..m |-> IF j <= k THEN ObjA ELSE ObjW] :
        m \in 0..(NumQuerySlots + 1), k \in 0..(NumQuerySlots + 1)}

Image(slots, objs) ==
    [bbox |-> [i \in 1..NumQuerySlots |-> slots[i].bbox],
     prob |-> [i \in 1..NumQuerySlots |-> slots[i].prob],
     label |-> [j \in 1..Len(objs) |-> objs[j].label],
     gt |-> [j \in 1..Len(objs) |-> objs[j].bbox]]

RichImages == {Image(s, o) : s \in [1..NumQuerySlots -> SlotChoices], o \in GtLists}

UniformSlots(c) == [i \in 1..NumQuerySlots |-> c]

SlotsWith(first, rest) == [i \in 1..NumQuerySlots |-> IF i = 1 THEN first ELSE rest]

\* An image without objects, one whose only object every slot misses, one with
\* two objects, and one whose object has a class every slot gives probability 0.
ImgEmpty == Image(UniformSlots([bbox |-> BoxW, prob |-> Half(0, NumClasses - 1)]), <<>>)
ImgOne == Image(UniformSlots([bbox |-> BoxD, prob |-> OneHot(0)]), <<ObjA>>)
ImgTwo ==
    Image(SlotsWith([bbox |-> BoxA, prob |-> OneHot(0)],
                    [bbox |-> BoxW, prob |-> Half(0, NumClasses - 1)]), <<ObjA, ObjW>>)
ImgZeroProb == Image(UniformSlots([bbox |-> BoxA, prob |-> OneHot(0)]), <<ObjW>>)

BatchImages == {ImgEmpty, ImgOne, ImgTwo, ImgZeroProb}

\* (no_obj_weight, l1_weight, giou_weight) in tenths; the first is the default.
WeightChoices == {<<1, 50, 20>>, <<1, 10, 30>>, <<0, 50, 20>>}

\* Lengths of labels and gt_bboxes against the batch size.
Shapes == {"equal", "short_gt", "long_gt"}

\* The state in which get_loss is called on the images imgs.
Called(imgs, shape, w, t) ==
    LET b == Len(imgs)
        lab == [k \in 1..b |-> imgs[k].label]
        gtb == [k \in 1..b |-> imgs[k].gt]
    IN  /\ batched_pred_bbox = [k \in 1..b |-> imgs[k].bbox]
        /\ batched_pred_prob = [k \in 1..b |-> imgs[k].prob]
        /\ labels = (IF shape = "short_gt" THEN SubSeq(lab, 1, b - 1)
                     ELSE IF shape = "long_gt" THEN Append(lab, <<0>>) ELSE lab)
        /\ gt_bboxes = (IF shape = "short_gt" THEN SubSeq(gtb, 1, b - 1)
                        ELSE IF shape = "long_gt" THEN Append(gtb, <<BoxA>>) ELSE gtb)
        /\ no_obj_weight = w[1]
        /\ l1_weight = w[2]
        /\ giou_weight = w[3]
        /\ tie = t
        /\ pc = "call"
        /\ it = 0
        /\ giou = <<>>
        /\ label_prob = <<>>
        /\ match_loss = <<>>
        /\ pred_indices = <<>>
        /\ gt_indices = <<>>
        /\ loss = Fin(0)
        /\ sum_losses = Fin(0)

\* Any image, alone or next to an image without objects.
InitImage ==
    \E rich \in RichImages, w \in WeightChoices, t \in {"first", "last"} :
        \E imgs \in {<<rich>>, <<rich, ImgEmpty>>, <<ImgEmpty, rich>>} :
            Called(imgs, "equal", w, t)

\* Any batch of up to MaxBatch of the four images, with labels and gt_bboxes
\* as long as the batch, one entry shorter or one entry longer.
InitBatch ==
    \E b \in 1..MaxBatch, w \in WeightChoices, t \in {"first", "last"}, shape \in Shapes :
        \E imgs \in [1..b -> BatchImages] : Called(imgs, shape, w, t)

Init == InitImage \/ InitBatch

----------------------------------------------------------------------------
\* Actions.

\* Lines 140-142: the forward pass has produced the predictions; the
\* accumulator is zeroed.
Enter ==
    /\ pc = "call"
    /\ pc' = "loop"
    /\ sum_losses' = Fin(0)
    /\ UNCHANGED <<inputs, it, giou, label_prob, match_loss, pred_indices, gt_indices, loss>>

\* Lines 143-163: one iteration of the zip loop.
LoopBody ==
    /\ pc = "loop"
    /\ it < CallZipLen(CurrentCall)
    /\ LET ps == ImageAssignment(CurrentCall, it + 1)
           l == ImageLoss(CurrentCall, it + 1)
       IN  /\ giou' = ImageGiou(CurrentCall, it + 1)
           /\ label_prob' = ImageLabelProb(CurrentCall, it + 1)
           /\ match_loss' = ImageMatchLoss(CurrentCall, it + 1)
           /\ pred_indices' = PredIndices(ps)
           /\ gt_indices' = GtIndices(ps)
           /\ loss' = l
           /\ sum_losses' = Accumulate(sum_losses, l)
    /\ it' = it + 1
    /\ UNCHANGED <<inputs, pc>>

\* Lines 164-165: the single division and the return.
Return ==
    /\ pc = "loop"
    /\ it = CallZipLen(CurrentCall)
    /\ sum_losses' = Normalize(sum_losses, Len(batched_pred_bbox), NumQuerySlots,
                               ObjectCount(CurrentCall, it))
    /\ pc' = "done"
    /\ UNCHANGED <<inputs, it, giou, label_prob, match_loss, pred_indices, gt_indices, loss>>

Next == Enter \/ LoopBody \/ Return

Spec == Init /\ [][Next]_vars

----------------------------------------------------------------------------
\* Properties.

\* The image of the latest completed iteration.
Processed == it >= 1
CurM == Len(labels[it])
CurCost(pi, gi) == SumInts([k \in 1..Len(pi) |-> match_loss[pi[k]][gi[k]]])
InjectiveMaps(m, n) == {f \in [1..m -> 1..n] : Injective(f)}

\* C1: for an image with N >= M the solver returns exactly M pairs, every
\* object exactly once and no slot twice, and the total cost of the pairs is
\* at most that of every injective mapping of the objects to slots.
C1_AssignmentOptimal ==
    (Processed /\ NumQuerySlots >= CurM) =>
        /\ Len(pred_indices) = CurM
        /\ Len(gt_indices) = CurM
        /\ \A j \in 1..CurM : Cardinality({k \in 1..Len(gt_indices) : gt_indices[k] = j}) = 1
        /\ \A k \in 1..Len(pred_indices) : pred_indices[k] \in 1..NumQuerySlots
        /\ \A k, l \in 1..Len(pred_indices) : pred_indices[k] = pred_indices[l] => k = l
        /\ \A f \in InjectiveMaps(CurM, NumQuerySlots) :
                CurCost(pred_indices, gt_indices)
                    <= SumInts([j \in 1..CurM |-> match_loss[f[j]][j]])

\* An image with at least two objects for which some injective mapping costs
\* strictly more than the returned one.
C1_Witness ==
    /\ Processed
    /\ CurM >= 2
    /\ NumQuerySlots >= CurM
    /\ Len(pred_indices) = CurM
    /\ \E f \in InjectiveMaps(CurM, NumQuerySlots) :
            CurCost(pred_indices, gt_indices)
                < SumInts([j \in 1..CurM |-> match_loss[f[j]][j]])

\* C2: a batch in which a processed image has more objects than there are
\* slots never returns a loss (the call fails instead).
C2_MoreObjectsThanSlotsFails ==
    ~(pc = "done" /\ \E k \in 1..it : Len(labels[k]) > NumQuerySlots)

\* C3: a call whose labels or gt_bboxes differ in length from the batch of
\* predictions never returns a loss (the call fails instead).
C3_LengthMismatchFails ==
    ~(pc = "done"
        /\ (Len(labels) # Len(batched_pred_bbox) \/ Len(gt_bboxes) # Len(batched_pred_bbox)))

\* C4: every slot's distribution has num_classes + 1 entries, and the image's
\* loss is the matched-pair terms plus, for every unmatched slot, the negative
\* log-probability of the no-object class.
C4_UnmatchedSlotsPayNoObject ==
    Processed =>
        /\ \A i \in 1..NumQuerySlots : Len(batched_pred_prob[it][i]) = NumClasses + 1
        /\ LET unmatched == {i \in 1..NumQuerySlots :
                                \A k \in 1..Len(pred_indices) : pred_indices[k] # i}
               matched == WeightedLoss(no_obj_weight, l1_weight, giou_weight, label_prob,
                                       giou, batched_pred_bbox[it], gt_bboxes[it],
                                       pred_indices, gt_indices)
               noobj == [i \in 1..NumQuerySlots |->
                            IF i \in unmatched
                            THEN NegLog(batched_pred_prob[it][i][NumClasses + 1])
                            ELSE Fin(0)]
           IN  FEq(loss, FAdd(matched, TorchSum(noobj)))

\* C5: for an image without objects the cost matrix has N rows and no column,
\* the assignment is empty, the matched-pair terms and so the image's loss are
\* exactly 0, and the call goes on with the accumulator as it was.
C5_NoObjectsNoLoss ==
    (Processed /\ CurM = 0) =>
        /\ Len(match_loss) = NumQuerySlots
        /\ \A i \in 1..NumQuerySlots : match_loss[i] = <<>>
        /\ pred_indices = <<>>
        /\ gt_indices = <<>>
        /\ ClsTerm(label_prob, pred_indices, gt_indices) = Fin(0)
        /\ GiouTerm(giou, pred_indices, gt_indices) = Fin(0)
        /\ L1Term(batched_pred_bbox[it], gt_bboxes[it], pred_indices, gt_indices) = Fin(0)
        /\ loss = Fin(0)
        /\ pc \in {"loop", "done"}
        /\ pc = "loop" => FEq(sum_losses, LoopSum(CurrentCall, it - 1))

\* An image with objects processed after an image without objects.
C5_Witness ==
    /\ it >= 2
    /\ Len(labels[it - 1]) = 0
    /\ Len(labels[it]) > 0
    /\ pred_indices # <<>>

\* The sum of the losses of the first k images, computed at once.
SumOfImageLosses(k) == TorchSum([i \in 1..k |-> ImageLoss(CurrentCall, i)])

\* C6 as stated: the returned loss is the sum of the per-image losses divided
\* by the number of ground-truth objects of the batch, at least 1.
C6_DividedByObjectCount ==
    pc = "done" =>
        FEq(sum_losses, FDiv(SumOfImageLosses(it), Max2(1, ObjectCount(CurrentCall, it))))

\* C6 amended: the sum of the per-image losses is kept undivided while the
\* images are accumulated and is divided once, on return, by the batch size
\* times the number of query slots.
C6_DividedOnceByBatchTimesSlots ==
    /\ pc = "loop" => (sum_losses.den = 1 /\ FEq(sum_losses, SumOfImageLosses(it)))
    /\ pc = "done" =>
        FEq(sum_losses, FDiv(SumOfImageLosses(it), Len(batched_pred_bbox) * NumQuerySlots))

\* A returned finite, non-zero loss of two or more images whose object count
\* differs from batch size times slots.
C6_Witness ==
    /\ pc = "done"
    /\ it >= 2
    /\ sum_losses.kind = "fin"
    /\ sum_losses.num > 0
    /\ Max2(1, ObjectCount(CurrentCall, it)) # Len(batched_pred_bbox) * NumQuerySlots

\* C7: entry (i, j) of the cost matrix handed to the solver is minus the raw
\* probability of object j's class under slot i plus the GIoU loss of the two
\* boxes: no logarithm and none of the three weights.
C7_MatchCostIsRawProbPlusGiou ==
    Processed =>
        /\ Len(match_loss) = NumQuerySlots
        /\ \A i \in 1..NumQuerySlots :
            /\ Len(match_loss[i]) = CurM
            /\ \A j \in 1..CurM :
                match_loss[i][j] =
                    GIoULoss(batched_pred_bbox[it][i], gt_bboxes[it][j])
                        - 4 * batched_pred_prob[it][i][labels[it][j] + 1]

\* A cost entry of a slot that gives its object's class probability 1/2,
\* under weights other than the defaults.
C7_Witness ==
    /\ Processed
    /\ <<no_obj_weight, l1_weight, giou_weight>> # <<1, 50, 20>>
    /\ \E i \in 1..NumQuerySlots : \E j \in 1..CurM :
            /\ batched_pred_prob[it][i][labels[it][j] + 1] = 1
            /\ giou[i][j] > 0

\* C8: the image's loss and the accumulated loss are always finite.
C8_LossFinite == loss.kind = "fin" /\ sum_losses.kind = "fin"

\* Some matched pair of call c has a GIoU loss above 0.
ImperfectPair(c) ==
    \E k \in 1..CallZipLen(c) :
        LET ps == ImageAssignment(c, k)
            g == ImageGiou(c, k)
        IN  \E x \in 1..Len(ps) : g[ps[x][1]][ps[x][2]] > 0

\* C9: with a matched pair of GIoU loss above 0, a larger giou_weight returns a
\* strictly larger batch loss, the assignments being the same.
C9_GiouWeightMonotone ==
    (pc = "done" /\ ImperfectPair(CurrentCall)) =>
        \A d \in {5, 10} :
            LET c2 == [CurrentCall EXCEPT !.gw = giou_weight + d]
            IN  /\ \A k \in 1..it : ImageAssignment(c2, k) = ImageAssignment(CurrentCall, k)
                /\ FLess(sum_losses, GetLoss(c2))

\* Call c with its first n images, their labels and their boxes permuted by p.
Permuted(c, p, n) ==
    [c EXCEPT !.bbox = [k \in 1..Len(c.bbox) |-> IF k <= n THEN c.bbox[p[k]] ELSE c.bbox[k]],
              !.prob = [k \in 1..Len(c.prob) |-> IF k <= n THEN c.prob[p[k]] ELSE c.prob[k]],
              !.labels = [k \in 1..Len(c.labels) |-> IF k <= n THEN c.labels[p[k]] ELSE c.labels[k]],
              !.gt = [k \in 1..Len(c.gt) |-> IF k <= n THEN c.gt[p[k]] ELSE c.gt[k]]]

\* C10: the matrices, the assignment and the loss of an image are those of
\* that image's own predictions and ground truth, and the returned loss is the
\* one get_loss returns for every permutation of the images.
C10_OrderIndependent ==
    /\ Processed =>
        /\ match_loss = MatchLoss(LabelProb(batched_pred_prob[it], labels[it]),
                                  GIoULossMatrix(batched_pred_bbox[it], gt_bboxes[it]))
        /\ loss = WeightedLoss(no_obj_weight, l1_weight, giou_weight, label_prob, giou,
                               batched_pred_bbox[it], gt_bboxes[it], pred_indices, gt_indices)
    /\ pc = "done" =>
        \A p \in InjectiveMaps(it, it) : FEq(GetLoss(Permuted(CurrentCall, p, it)), sum_losses)

\* A returned finite loss of two images whose own losses differ.
C10_Witness ==
    /\ pc = "done"
    /\ it >= 2
    /\ sum_losses.kind = "fin"
    /\ ~FEq(ImageLoss(CurrentCall, 1), ImageLoss(CurrentCall, 2))

====
